---- MODULE Spec2Model ----
(***************************************************************************)
(* Call session orchestrator (websocket/callHandler), the AI conversation  *)
(* link (services/geminiClient), the tool registry and the codec helpers   *)
(* the orchestrator uses on the inbound path.                              *)
(*                                                                         *)
(* Time is counted in whole seconds.  The 2 s, 3 s and 15 s timers are      *)
(* count-downs and Tick advances time to the earliest of their deadlines.  *)
(* The 300 s timer is far beyond them: it is kept as "pending" (its full   *)
(* value) until MaxDurationDue lets it come due (0), which may happen at   *)
(* any moment in between, and it comes due when Tick finds no nearer       *)
(* deadline.  The 100 ms poll of the consumption loop is shorter than the  *)
(* unit and is an untimed sleep.                                           *)
(*                                                                         *)
(* Node runs one macrotask (a socket data chunk, a socket event, a timer   *)
(* callback) at a time and drains the microtask queue (continuations of    *)
(* awaits on settled promises) before the next one: micro is that queue,   *)
(* chunk the socket whose data chunk is being delivered.                   *)
(***************************************************************************)
EXTENDS Integers, Sequences, FiniteSets, TLC

\* ---------------------------------------------------------------- constants
MAX_CALL_DURATION == 300
SILENCE_TIMEOUT == 15
BARGE_IN_THRESHOLD == 5000
TURN_LIMIT == 5
TURN_LIMIT_DELAY == 2
END_CALL_DELAY == 3
GOODBYE_DELAY == 2
NORMAL_CLOSURE == 1000
INTERNAL_ERROR == 1011
BIAS == 132
CLIP == 32635

\* ------------------------------------------------------------------- bounds
MaxStarts == 2
MaxTurns == 6
MaxTimers == 2
MaxLog == 1
MaxChunk == 2
IdleCap == 16

\* what one run of the model may contain: either one call explored in depth
\* (turns, farewells, tool calls, socket errors), or MaxStarts start events
\* whose calls share the AI link and get neither turn-complete signals nor
\* farewells, end_call requests or socket errors
Solo == [starts |-> 1, turns |-> MaxTurns, timers |-> MaxTimers, log |-> MaxLog,
         faults |-> TRUE]
Shared == [starts |-> MaxStarts, turns |-> 0, timers |-> 0, log |-> 0, faults |-> FALSE]
Scenarios == {Solo, Shared}

Conns == {"A", "B"}
CallSids == {"CA1", "CA2"}
StartMsgs ==
  { [callSid |-> "CA1", streamSid |-> "MZ1"],
    [callSid |-> "CA2", streamSid |-> "MZ2"] }

Min(a, b) == IF a <= b THEN a ELSE b
Max(a, b) == IF a >= b THEN a ELSE b

\* ------------------------------------------------------------ codec helpers
RECURSIVE Pow2(_)
Pow2(n) == IF n = 0 THEN 1 ELSE 2 * Pow2(n - 1)

\* MU_LAW_TABLE[i]: the 16-bit sample the decode table holds for byte i
MuLawTable(i) ==
  LET byte == 255 - i
      sign == byte \div 128
      exponent == (byte \div 16) % 8
      mantissa == byte % 16
      sample == ((mantissa * 8) + 132) * Pow2(exponent) - BIAS
  IN IF sign = 1 THEN -sample ELSE sample

ulaw2pcm(data) == [i \in 1..Len(data) |-> MuLawTable(data[i])]

\* the values of an Int16Array element, and the value it keeps of a number
\* stored into it
Int16 == -32768..32767
ToInt16(v) == ((v + 32768) % 65536) - 32768

\* Math.floor(Math.log2(n)) for n >= 1
RECURSIVE FloorLog2(_)
FloorLog2(n) == IF n < 2 THEN 0 ELSE 1 + FloorLog2(n \div 2)

\* a | b for a, b >= 0
RECURSIVE BitOr(_, _)
BitOr(a, b) ==
  IF a = 0 THEN b
  ELSE IF b = 0 THEN a
  ELSE Max(a % 2, b % 2) + 2 * BitOr(a \div 2, b \div 2)

\* the body of pcm2ulaw's loop as it would be without the clipping to CLIP
MuLawByteNoClip(x) ==
  LET sign == IF x < 0 THEN 128 ELSE 0
      sample == (IF x < 0 THEN -x ELSE x) + BIAS
      exponent == FloorLog2(sample) - 7
      mantissa == (sample \div Pow2(exponent + 3)) % 16
  IN 255 - (BitOr(BitOr(sign, exponent * 16), mantissa) % 256)

\* the body of pcm2ulaw's loop: the mu-law byte of the 16-bit sample x
MuLawByte(x) ==
  LET sign == IF x < 0 THEN 128 ELSE 0
      magnitude == IF x < 0 THEN -x ELSE x
      sample == (IF magnitude > CLIP THEN CLIP ELSE magnitude) + BIAS
      exponent == FloorLog2(sample) - 7
      mantissa == (sample \div Pow2(exponent + 3)) % 16
  IN 255 - (BitOr(BitOr(sign, exponent * 16), mantissa) % 256)

pcm2ulaw(data) == [i \in 1..Len(data) |-> MuLawByte(data[i])]

RECURSIVE SumSquares(_)
SumSquares(samples) ==
  IF samples = <<>> THEN 0
  ELSE Head(samples) * Head(samples) + SumSquares(Tail(samples))

\* calculateRMS(samples) > t, for t >= 0: sqrt(sum/n) > t iff sum > t*t*n
RmsAbove(samples, t) ==
  IF Len(samples) = 0 THEN 0 > t
  ELSE SumSquares(samples) > t * t * Len(samples)

\* mu-law payloads of inbound media events: empty, silence, a sample of 4860,
\* a sample of 5116, full scale, and the two near-threshold samples together
Frames == { <<>>, <<255>>, <<172>>, <<171>>, <<128>>, <<171, 172>> }

\* the 8000 -> 24000 branch as it would be with the interpolated values rounded
\* toward zero
resample8to24Truncating(samples) ==
  LET n == Len(samples)
      Trunc(a) == IF a < 0 THEN -((-a) \div 3) ELSE a \div 3
      At(k) ==
        LET i == (k - 1) \div 3
            r == (k - 1) % 3
            s1 == samples[i + 1]
        IN IF i + 1 = n \/ r = 0 THEN s1
           ELSE LET s2 == samples[i + 2]
                IN IF r = 1 THEN Trunc(2 * s1 + s2) ELSE Trunc(s1 + 2 * s2)
  IN [k \in 1..(3 * n) |-> At(k)]

\* resample(data, 8000, 24000)
resample8to24(samples) ==
  LET n == Len(samples)
      At(k) ==
        LET i == (k - 1) \div 3
            r == (k - 1) % 3
            s1 == samples[i + 1]
        IN IF i + 1 = n \/ r = 0 THEN s1
           ELSE LET s2 == samples[i + 2]
                IN IF r = 1 THEN (2 * s1 + s2) \div 3 ELSE (s1 + 2 * s2) \div 3
  IN [k \in 1..(3 * n) |-> At(k)]

\* resample(data, 24000, 8000)
resample24to8(samples) ==
  [i \in 1..(Len(samples) \div 3) |->
     ToInt16((samples[3 * i - 2] + samples[3 * i - 1] + samples[3 * i]) \div 3)]

\* resample(data, fromRate, toRate) for the rates the handler uses; the generic
\* interpolation of other rate pairs is not reached by them
resample(samples, fromRate, toRate) ==
  IF fromRate = toRate THEN samples
  ELSE IF fromRate = 8000 /\ toRate = 24000 THEN resample8to24(samples)
  ELSE resample24to8(samples)

\* ------------------------------------------------------------------- state
VARIABLES
  tws,               \* readyState of each telephony socket
  tcode,             \* close code of its closing handshake in progress (0: none)
  session,           \* the closure variable `session` (0: null, else index in sessions)
  silenceTimer,      \* seconds left on the closure's silenceTimer (-1: none pending)
  maxDurationTimer,  \* seconds left on the closure's maxDurationTimer (-1: none pending)
  pendingEnd,        \* pending setTimeout callbacks no variable refers to: <<due, reason>>
  sessions,          \* every CallSession object created so far
  activeSessions,    \* the registry: callSid -> index in sessions (0: no entry)
  hs,                \* handleStart invocations that called connect()
  gsock,             \* the WebSocket connect() number g opened
  gemini,            \* the GeminiClient singleton: ws, isSetupComplete, pendingResponses
  lp,                \* the receiveFromGemini() call of handleStart invocation g
  micro,             \* microtask queue
  chunk,             \* socket whose data chunk is being delivered
  out,               \* what the last step sent on the sockets, in order
  uncaught,          \* an exception left a socket event listener: the process is gone
  codec,             \* the buffer a codec helper is applied to, and the input it came from
  cap                \* the scenario of this run, one of Scenarios

vars == << tws, tcode, session, silenceTimer, maxDurationTimer, pendingEnd, sessions,
           activeSessions, hs, gsock, gemini, lp, micro, chunk, out, uncaught, codec, cap >>

\* the state as one record, with nothing sent yet in this step
State ==
  [ tws |-> tws, tcode |-> tcode, session |-> session, silenceTimer |-> silenceTimer,
    maxDurationTimer |-> maxDurationTimer, pendingEnd |-> pendingEnd,
    sessions |-> sessions, activeSessions |-> activeSessions, hs |-> hs,
    gsock |-> gsock, gemini |-> gemini, lp |-> lp, micro |-> micro, chunk |-> chunk,
    out |-> <<>>, uncaught |-> uncaught ]

\* the step ends in state st; chunk is only kept while continuations are queued
Commit(st) ==
  /\ tws' = st.tws
  /\ tcode' = st.tcode
  /\ session' = st.session
  /\ silenceTimer' = st.silenceTimer
  /\ maxDurationTimer' = st.maxDurationTimer
  /\ pendingEnd' = st.pendingEnd
  /\ sessions' = st.sessions
  /\ activeSessions' = st.activeSessions
  /\ hs' = st.hs
  /\ gsock' = st.gsock
  /\ gemini' = st.gemini
  /\ lp' = st.lp
  /\ micro' = st.micro
  /\ chunk' = IF st.micro = <<>> THEN [kind |-> "none", conn |-> "", sock |-> 0, n |-> 0] ELSE st.chunk
  /\ out' = st.out
  /\ uncaught' = st.uncaught
  /\ codec' = codec
  /\ cap' = cap

\* ------------------------------------------------------ AI endpoint messages
\* text of a transcript part, one string per character
Texts ==
  { <<"O", "k">>, <<"B", "y", "e", "!">>, <<"b", "y", " ", "e">>,
    <<"t", "a", "k", "e", " ", "C", "A", "R", "E">> }

Response(tc, calls, parts) ==
  [setupComplete |-> FALSE, turnComplete |-> tc, toolCalls |-> calls, parts |-> parts,
   malformed |-> FALSE]

AudioPart == [kind |-> "audio", text |-> <<>>]
TextPart(t) == [kind |-> "text", text |-> t]
ToolCall(id, name) == [id |-> id, name |-> name]

NoMsg == Response(FALSE, <<>>, <<>>)
SetupCompleteMsg == [NoMsg EXCEPT !.setupComplete = TRUE]
\* data that JSON.parse rejects
Malformed == [NoMsg EXCEPT !.malformed = TRUE]

\* what the AI endpoint may send on a connection
GeminiMsgs ==
  { SetupCompleteMsg, NoMsg, Response(TRUE, <<>>, <<>>), Response(FALSE, <<>>, <<AudioPart>>),
    Malformed }
  \cup { Response(FALSE, <<>>, <<TextPart(t)>>) : t \in Texts }
  \cup { Response(FALSE, <<ToolCall("f1", "end_call")>>, <<>>),
         Response(FALSE, <<ToolCall("f1", "lookup")>>, <<>>),
         Response(TRUE, <<ToolCall("f1", "lookup"), ToolCall("f2", "end_call")>>,
                  <<AudioPart, TextPart(<<"B", "y", "e", "!">>)>>) }

NoLoop == [pc |-> "off", on |-> 0, msg |-> NoMsg, k |-> 0, threw |-> FALSE]

\* ------------------------------------------------------------ GeminiClient
\* WebSocket.close() of the ws package, by readyState
SockClose(state) ==
  CASE state = "CONNECTING" -> "ABORTED"
    [] state = "OPEN" -> "CLOSING"
    [] OTHER -> state

\* WebSocket.send() of the ws package throws while CONNECTING and drops the data
\* silently once the socket is no longer OPEN
SockSendThrows(state) == state = "CONNECTING"
SockDelivers(state) == state = "OPEN"

Queue(st, task) == [st EXCEPT !.micro = Append(@, task)]
LoopTask(g) == [kind |-> "loop", id |-> g]

isConnected(st) ==
  /\ st.gemini.ws # 0
  /\ st.gsock[st.gemini.ws].state = "OPEN"
  /\ st.gemini.isSetupComplete

\* sendAudio / sendMessage / sendToolResponse throw at their guard or in ws.send
SendThrows(st) ==
  \/ st.gemini.ws = 0
  \/ ~st.gemini.isSetupComplete
  \/ SockSendThrows(st.gsock[st.gemini.ws].state)

\* one entry of out
Out(to, c, g, event, tag, sent) ==
  [to |-> to, conn |-> c, sock |-> g, event |-> event, tag |-> tag, sent |-> sent,
   body |-> {}]

Emit(st, entry) == [st EXCEPT !.out = Append(@, entry)]

Send(st, kind, tag) ==
  Emit(st, Out("gemini", "", st.gemini.ws, kind, tag,
               SockDelivers(st.gsock[st.gemini.ws].state)))

\* receiveFromGemini(): receive() returned null. The continuation of the await
\* does nothing but start the 100 ms sleep, so the loop sleeps from the moment
\* the promise is settled
loopNull(st, g) == [st EXCEPT !.lp[g].pc = "sleep", !.lp[g].on = 0, !.lp[g].msg = NoMsg]

\* an entry of pendingResponses is called with a value: it settles the receive()
\* promise of its loop unless that promise is settled already
ResolveEntry(st, e, isNull, m) ==
  IF e.live /\ st.lp[e.loop].pc = "wait"
  THEN IF isNull THEN loopNull(st, e.loop)
       ELSE Queue([st EXCEPT !.lp[e.loop].pc = "msg", !.lp[e.loop].on = 0,
                             !.lp[e.loop].msg = m],
                  LoopTask(e.loop))
  ELSE st

RECURSIVE ResolveAllNull(_, _)
ResolveAllNull(st, entries) ==
  IF entries = <<>> THEN st
  ELSE ResolveAllNull(ResolveEntry(st, Head(entries), TRUE, NoMsg), Tail(entries))

\* close() as it would be if it emptied the queue without calling the
\* resolvers in it
geminiCloseDropsQueue(st) ==
  IF st.gemini.ws = 0 THEN st
  ELSE [st EXCEPT !.gemini = [ws |-> 0, isSetupComplete |-> FALSE,
                              pendingResponses |-> <<>>],
                  !.gsock[st.gemini.ws].state = SockClose(@)]

\* GeminiClient.close()
geminiClose(st) ==
  IF st.gemini.ws = 0 THEN st
  ELSE LET r == ResolveAllNull(st, st.gemini.pendingResponses)
       IN [r EXCEPT !.gemini = [ws |-> 0, isSetupComplete |-> FALSE,
                                pendingResponses |-> <<>>],
                    !.gsock[st.gemini.ws].state = SockClose(@)]

\* JSON.stringify(object): the properties whose value is not undefined
stringify(object) ==
  {<<k, object[k]>> : k \in {f \in DOMAIN object : object[f] # "undefined"}}

\* sendAudio(audioChunk) once its guard has passed
sendAudio(st, audioChunk) ==
  Emit(st, [Out("gemini", "", st.gemini.ws, "audio", "",
                SockDelivers(st.gsock[st.gemini.ws].state))
              EXCEPT !.body = {<<"data", audioChunk>>}])

\* sendToolResponse(toolId, functionName, result) once its guard has passed
sendToolResponse(st, toolId, result) ==
  Emit(st, [Out("gemini", "", st.gemini.ws, "tool_response", toolId,
                SockDelivers(st.gsock[st.gemini.ws].state))
              EXCEPT !.body = stringify(result)])

\* receive() called by loop g
receive(st, g) ==
  IF st.gemini.ws = 0 \/ ~st.gemini.isSetupComplete
  THEN loopNull(st, g)
  ELSE [st EXCEPT !.gemini.pendingResponses = Append(@, [loop |-> g, live |-> TRUE]),
                  !.lp[g].pc = "wait", !.lp[g].on = st.gemini.ws, !.lp[g].msg = NoMsg]

\* connect() up to the promise it returns, called by handleStart for start message m
connect(st, c, m) ==
  LET g == Len(st.gsock) + 1
  IN [st EXCEPT !.gsock = Append(@, [state |-> "CONNECTING", once |-> <<>>]),
                !.gemini.ws = g,
                !.hs = Append(@, [conn |-> c, callSid |-> m.callSid,
                                  streamSid |-> m.streamSid, pc |-> "await"]),
                !.lp = Append(@, NoLoop)]

\* resolve() / reject() of the promise connect() number g returned
Settle(st, g, how) ==
  IF st.hs[g].pc = "await"
  THEN Queue([st EXCEPT !.hs[g].pc = how], [kind |-> "start", id |-> g])
  ELSE st

\* ws.on('open') of socket g. The handler sends the setup message and registers
\* its once('message') listener on this.ws, the socket of the latest connect();
\* it throws, and registers nothing, when this.ws is null or still connecting
onOpen(st, g) ==
  LET a == [st EXCEPT !.gsock[g].state = "OPEN"]
      w == a.gemini.ws
  IN IF w = 0 \/ SockSendThrows(a.gsock[w].state) THEN a
     ELSE Emit([a EXCEPT !.gsock[w].once = Append(@, g)],
               Out("gemini", "", w, "setup", "", SockDelivers(a.gsock[w].state)))

\* JSON.parse throws in a listener of a socket's 'message' event: nothing
\* catches it, the rest of the listener and the listeners after it do not run
Throw(st) == [st EXCEPT !.uncaught = TRUE]

\* ws.on('message'), registered by connect()
onMessage(st, g, m) ==
  IF ~st.gemini.isSetupComplete THEN st
  ELSE IF m.malformed THEN Throw(st)
  ELSE IF st.gemini.pendingResponses = <<>> THEN st
  ELSE LET e == Head(st.gemini.pendingResponses)
           a == [st EXCEPT !.gemini.pendingResponses = Tail(@)]
       IN ResolveEntry(a, e, FALSE, m)

\* the once('message') listeners of a socket, in the order the open handlers
\* registered them: listener h settles the promise of connect() number h
RECURSIVE onceListeners(_, _, _)
onceListeners(st, hsq, m) ==
  IF hsq = <<>> THEN st
  ELSE LET h == Head(hsq)
           a == IF m.setupComplete
                THEN Settle([st EXCEPT !.gemini.isSetupComplete = TRUE], h, "resolved")
                ELSE Settle(st, h, "rejected")
       IN onceListeners(a, Tail(hsq), m)

\* ws.once('message'), registered by the open handler; a once listener is
\* removed before it is called
onFirstMessage(st, g, m) ==
  IF st.uncaught \/ st.gsock[g].once = <<>> THEN st
  ELSE IF m.malformed THEN Throw([st EXCEPT !.gsock[g].once = Tail(@)])
  ELSE onceListeners([st EXCEPT !.gsock[g].once = <<>>], st.gsock[g].once, m)

\* ws.on('error')
onError(st, g) == Settle([st EXCEPT !.gsock[g].state = "ERRORED"], g, "rejected")

\* the close handlers of receive() calls registered on socket g, oldest first
RECURSIVE closeHandlers(_, _, _)
closeHandlers(st, g, i) ==
  IF i > Len(st.lp) THEN st
  ELSE IF st.lp[i].pc = "wait" /\ st.lp[i].on = g
       THEN LET stale == [j \in 1..Len(st.gemini.pendingResponses) |->
                           IF st.gemini.pendingResponses[j].loop = i
                           THEN [st.gemini.pendingResponses[j] EXCEPT !.live = FALSE]
                           ELSE st.gemini.pendingResponses[j]]
                a == loopNull(st, i)
            IN closeHandlers([a EXCEPT !.gemini.pendingResponses = stale], g, i + 1)
       ELSE closeHandlers(st, g, i + 1)

\* ws.on('close') followed by the once('close') handlers
onClose(st, g) ==
  closeHandlers([st EXCEPT !.gsock[g].state = "CLOSED",
                           !.gemini.isSetupComplete = FALSE], g, 1)

\* no buffer in the hands of a codec helper
NoBuffer == [stage |-> "none", input |-> <<>>, data |-> <<>>, fromRate |-> 0, toRate |-> 0]

\* the handler module and the GeminiClient singleton after construction
Constructed ==
  /\ tws = [c \in Conns |-> "OPEN"]
  /\ tcode = [c \in Conns |-> 0]
  /\ session = [c \in Conns |-> 0]
  /\ silenceTimer = [c \in Conns |-> -1]
  /\ maxDurationTimer = [c \in Conns |-> -1]
  /\ pendingEnd = [c \in Conns |-> <<>>]
  /\ sessions = <<>>
  /\ activeSessions = [id \in CallSids |-> 0]
  /\ hs = <<>>
  /\ gsock = <<>>
  /\ gemini = [ws |-> 0, isSetupComplete |-> FALSE, pendingResponses |-> <<>>]
  /\ lp = <<>>
  /\ micro = <<>>
  /\ chunk = [kind |-> "none", conn |-> "", sock |-> 0, n |-> 0]
  /\ out = <<>>
  /\ uncaught = FALSE

Init ==
  /\ Constructed
  /\ codec = NoBuffer
  /\ cap \in Scenarios

\* ------------------------------------------------------------ ToolRegistry
\* executeTool(toolName, args); "undefined" stands for a property the result lacks
executeTool(name) ==
  IF name = "end_call"
  THEN [action |-> "end_call", success |-> "undefined", message |-> "Ending call...",
        error |-> "undefined"]
  ELSE [action |-> "undefined", success |-> "undefined", message |-> "undefined",
        error |-> "Unknown tool"]

\* ------------------------------------------------------------- callHandler
toLowerCase(text) ==
  [i \in 1..Len(text) |->
     CASE text[i] = "A" -> "a" [] text[i] = "B" -> "b" [] text[i] = "C" -> "c"
       [] text[i] = "E" -> "e" [] text[i] = "O" -> "o" [] text[i] = "R" -> "r"
       [] OTHER -> text[i]]

includes(text, phrase) ==
  \E i \in 0..(Len(text) - Len(phrase)) :
    \A j \in 1..Len(phrase) : text[i + j] = phrase[j]

endCallPhrases ==
  { <<"g", "o", "o", "d", "b", "y", "e">>, <<"b", "y", "e">>,
    <<"t", "a", "k", "e", " ", "c", "a", "r", "e">>,
    <<"h", "a", "v", "e", " ", "a", " ", "g", "r", "e", "a", "t", " ", "d", "a", "y">> }

saysGoodbye(text) == \E phrase \in endCallPhrases : includes(toLowerCase(text), phrase)

\* setTimeout(() => endCall(reason), due) with no handle kept; the list is kept
\* ordered by due time, then by reason
ReasonRank(reason) ==
  CASE reason = "completed" -> 1 [] reason = "ai_requested" -> 2
    [] reason = "max_duration" -> 3 [] OTHER -> 4

TimerKey(e) == 10 * e.due + ReasonRank(e.reason)

RECURSIVE InsertTimer(_, _)
InsertTimer(list, e) ==
  IF list = <<>> THEN <<e>>
  ELSE IF TimerKey(e) <= TimerKey(Head(list)) THEN <<e>> \o list
       ELSE <<Head(list)>> \o InsertTimer(Tail(list), e)

ArmEnd(st, c, due, reason) ==
  [st EXCEPT !.pendingEnd[c] = InsertTimer(@, [due |-> due, reason |-> reason])]

\* ws.send(JSON.stringify(event)) on the telephony socket of connection c
TwilioSend(st, c, event, streamSid) ==
  Emit(st, Out("twilio", c, 0, event, streamSid, SockDelivers(st.tws[c])))

\* ws.close(code, reason) on the telephony socket of connection c
TwilioSockClose(st, c, code) ==
  IF st.tws[c] = "OPEN"
  THEN [st EXCEPT !.tws[c] = "CLOSING", !.tcode[c] = code]
  ELSE st

\* endCall(reason) up to `await geminiClient.close()`
endCall(st, c, reason) ==
  IF st.session[c] = 0 THEN st
  ELSE LET s == st.session[c]
           a == [st EXCEPT !.sessions[s].isActive = FALSE,
                           !.sessions[s].quiet = 0,
                           !.sessions[s].heard = FALSE,
                           !.silenceTimer[c] = -1,
                           !.maxDurationTimer[c] = -1]
           b == Emit(a, Out("console", c, s, "Ending call", reason,
                            st.sessions[s].isActive))
       IN Queue(geminiClose(b), [kind |-> "end", id |-> c])

\* endCall(reason) after `await geminiClient.close()`
endCallRest(st, c) ==
  LET s == st.session[c]
      a == IF st.tws[st.sessions[s].conn] = "OPEN"
           THEN TwilioSockClose(st, st.sessions[s].conn, NORMAL_CLOSURE)
           ELSE st
      b == [a EXCEPT !.activeSessions[st.sessions[s].callSid] = 0]
  IN Emit(b, Out("console", c, s, "ended", "", TRUE))

\* cleanup(), up to `await endCall('disconnected')` when it is reached
cleanup(st, c) ==
  IF st.session[c] # 0 /\ st.sessions[st.session[c]].isActive
  THEN Queue(endCall(st, c, "disconnected"), [kind |-> "cleanup", id |-> c])
  ELSE [st EXCEPT !.silenceTimer[c] = -1, !.maxDurationTimer[c] = -1]

\* cleanup() after `await endCall('disconnected')`
cleanupRest(st, c) == [st EXCEPT !.silenceTimer[c] = -1, !.maxDurationTimer[c] = -1]

\* handleMedia as it would be if it armed the silence timer only when none is
\* pending
handleMediaKeepsTimer(st, c, track, payload) ==
  IF st.session[c] = 0 \/ track # "inbound" THEN st
  ELSE LET s == st.session[c]
           a == [st EXCEPT !.silenceTimer[c] = IF @ >= 0 THEN @ ELSE SILENCE_TIMEOUT,
                           !.sessions[s].quiet = 0,
                           !.sessions[s].heard = st.sessions[s].isActive]
           b == IF RmsAbove(ulaw2pcm(payload), BARGE_IN_THRESHOLD)
                THEN TwilioSend(a, c, "clear", st.sessions[s].streamSid)
                ELSE a
       IN IF ~isConnected(b) THEN b
          ELSE sendAudio(b, resample(ulaw2pcm(payload), 8000, 24000))

\* handleMedia as it would be if the barge-in check came after the readiness
\* check
handleMediaClearWhenReady(st, c, track, payload) ==
  IF st.session[c] = 0 \/ track # "inbound" THEN st
  ELSE LET s == st.session[c]
           a == [st EXCEPT !.silenceTimer[c] = SILENCE_TIMEOUT,
                           !.sessions[s].quiet = 0,
                           !.sessions[s].heard = st.sessions[s].isActive]
       IN IF ~isConnected(a) THEN a
          ELSE LET b == IF RmsAbove(ulaw2pcm(payload), BARGE_IN_THRESHOLD)
                        THEN TwilioSend(a, c, "clear", st.sessions[s].streamSid)
                        ELSE a
               IN sendAudio(b, resample(ulaw2pcm(payload), 8000, 24000))

\* handleMedia as it would be if it forwarded the frame whenever the client
\* holds a socket, ready or not
handleMediaForwardsUnready(st, c, track, payload) ==
  IF st.session[c] = 0 \/ track # "inbound" THEN st
  ELSE LET s == st.session[c]
           a == [st EXCEPT !.silenceTimer[c] = SILENCE_TIMEOUT,
                           !.sessions[s].quiet = 0,
                           !.sessions[s].heard = st.sessions[s].isActive]
           b == IF RmsAbove(ulaw2pcm(payload), BARGE_IN_THRESHOLD)
                THEN TwilioSend(a, c, "clear", st.sessions[s].streamSid)
                ELSE a
       IN IF b.gemini.ws = 0 THEN b
          ELSE sendAudio(b, resample(ulaw2pcm(payload), 8000, 24000))

\* handleMedia(message) for a media event with the given track and payload
handleMedia(st, c, track, payload) ==
  IF st.session[c] = 0 \/ track # "inbound" THEN st
  ELSE LET s == st.session[c]
           a == [st EXCEPT !.silenceTimer[c] = SILENCE_TIMEOUT,
                           !.sessions[s].quiet = 0,
                           !.sessions[s].heard = st.sessions[s].isActive]
           pcm8k == ulaw2pcm(payload)
           b == IF RmsAbove(pcm8k, BARGE_IN_THRESHOLD)
                THEN TwilioSend(a, c, "clear", st.sessions[s].streamSid)
                ELSE a
           pcm24k == resample(pcm8k, 8000, 24000)
       IN IF ~isConnected(b) THEN b
          ELSE sendAudio(b, pcm24k)

\* handleStop(message)
handleStop(st, c) == endCall(st, c, "completed")

\* loopBack as it would be if the loop called receive() again without looking
\* at the session's flag
loopBackIgnoresFlag(st, g) ==
  receive([st EXCEPT !.lp[g].k = 0, !.lp[g].msg = NoMsg], g)

\* the while condition of receiveFromGemini() and the receive() call after it
loopBack(st, g) ==
  LET a == [st EXCEPT !.lp[g].k = 0, !.lp[g].msg = NoMsg]
  IN IF a.sessions[a.session[a.hs[g].conn]].isActive
     THEN receive(a, g)
     ELSE [a EXCEPT !.lp[g].pc = "done"]

\* receiveFromGemini(): content parts i.. of the response, then the next iteration
RECURSIVE loopParts(_, _, _)
loopParts(st, g, i) ==
  LET c == st.hs[g].conn
      s == st.session[c]
      parts == st.lp[g].msg.parts
  IN IF i > Len(parts) THEN loopBack(st, g)
     ELSE IF parts[i].kind = "audio"
          THEN loopParts(TwilioSend(st, c, "media", st.sessions[s].streamSid), g, i + 1)
          ELSE LET a == [st EXCEPT !.sessions[s].logLen = @ + 1]
                   b == IF saysGoodbye(parts[i].text)
                        THEN ArmEnd(a, c, GOODBYE_DELAY, "completed")
                        ELSE a
               IN loopParts(b, g, i + 1)

\* receiveFromGemini(): tool call k of the response, up to `await executeTool`
loopCall(st, g, k) ==
  IF k > Len(st.lp[g].msg.toolCalls) THEN loopParts(st, g, 1)
  ELSE Queue([st EXCEPT !.lp[g].pc = "exec", !.lp[g].k = k], LoopTask(g))

\* receiveFromGemini(): a response arrived; turn accounting, then the tool calls
loopResponse(st, g) ==
  LET c == st.hs[g].conn
      s == st.session[c]
      a == IF ~st.lp[g].msg.turnComplete THEN st
           ELSE LET n == [st EXCEPT !.sessions[s].aiTurnCount = @ + 1]
                IN IF n.sessions[s].aiTurnCount >= TURN_LIMIT
                   THEN ArmEnd(n, c, TURN_LIMIT_DELAY, "completed")
                   ELSE n
  IN loopCall(a, g, 1)

\* receiveFromGemini(): executeTool returned; sendToolResponse up to its await
loopExec(st, g) ==
  LET call == st.lp[g].msg.toolCalls[st.lp[g].k]
      result == executeTool(call.name)
      geminiResponse == [success |-> result.success, message |-> result.message]
      a == IF SendThrows(st)
           THEN [st EXCEPT !.lp[g].threw = TRUE]
           ELSE sendToolResponse(st, call.id, geminiResponse)
  IN Queue([a EXCEPT !.lp[g].pc = "sent"], LoopTask(g))

\* loopSent as it would be if an end_call result ended the call without the
\* 3-second delay
loopSentNoDelay(st, g) ==
  LET c == st.hs[g].conn
      call == st.lp[g].msg.toolCalls[st.lp[g].k]
  IN IF st.lp[g].threw
     THEN endCall([st EXCEPT !.lp[g].pc = "done", !.lp[g].threw = FALSE,
                             !.lp[g].msg = NoMsg, !.lp[g].k = 0], c, "error")
     ELSE LET a == IF executeTool(call.name).action = "end_call"
                   THEN endCall(st, c, "ai_requested")
                   ELSE st
          IN loopCall(a, g, st.lp[g].k + 1)

\* receiveFromGemini(): after `await sendToolResponse`: the catch block when it
\* threw, else the end_call timer and the next tool call
loopSent(st, g) ==
  LET c == st.hs[g].conn
      call == st.lp[g].msg.toolCalls[st.lp[g].k]
  IN IF st.lp[g].threw
     THEN endCall([st EXCEPT !.lp[g].pc = "done", !.lp[g].threw = FALSE,
                             !.lp[g].msg = NoMsg, !.lp[g].k = 0], c, "error")
     ELSE LET a == IF executeTool(call.name).action = "end_call"
                   THEN ArmEnd(st, c, END_CALL_DELAY, "ai_requested")
                   ELSE st
          IN loopCall(a, g, st.lp[g].k + 1)

NewSession(c, callSid, streamSid) ==
  [callSid |-> callSid, streamSid |-> streamSid, conn |-> c, isActive |-> TRUE,
   aiTurnCount |-> 0, logLen |-> 0, quiet |-> 0, heard |-> FALSE]

\* handleStart(message) after `await geminiClient.connect()` resolved, up to
\* `await geminiClient.sendMessage()`; a maxDurationTimer still pending loses its
\* handle and stays pending
startResolved(st, g) ==
  LET c == st.hs[g].conn
      n == Len(st.sessions) + 1
      a == [st EXCEPT
              !.sessions = Append(@, NewSession(c, st.hs[g].callSid, st.hs[g].streamSid)),
              !.session[c] = n,
              !.activeSessions[st.hs[g].callSid] = n,
              !.pendingEnd[c] =
                 IF st.maxDurationTimer[c] >= 0
                 THEN InsertTimer(@, [due |-> st.maxDurationTimer[c],
                                      reason |-> "max_duration"])
                 ELSE @,
              !.maxDurationTimer[c] = MAX_CALL_DURATION]
      b == receive(a, g)
  IN IF SendThrows(b)
     THEN Queue([b EXCEPT !.hs[g].pc = "threw"], [kind |-> "start", id |-> g])
     ELSE [Send(b, "text", "") EXCEPT !.hs[g].pc = "done"]

\* handleStart(message): the catch block
startFailed(st, g) ==
  [TwilioSockClose(st, st.hs[g].conn, INTERNAL_ERROR) EXCEPT !.hs[g].pc = "done"]

\* handleStart(message) up to `await geminiClient.connect()`
handleStart(st, c, m) == connect(st, c, m)

\* ------------------------------------------------------------ the scheduler
NoChunk == [kind |-> "none", conn |-> "", sock |-> 0, n |-> 0]
TwilioChunk(c) == [kind |-> "twilio", conn |-> c, sock |-> 0, n |-> 1]
GeminiChunk(g) == [kind |-> "gemini", conn |-> "", sock |-> g, n |-> 1]

\* a new macrotask starts only when the microtask queue is empty
MacroOK == micro = <<>> /\ ~uncaught
\* the next frame of the data chunk being delivered is handled before the
\* continuations its earlier frames queued; a chunk holds at most MaxChunk frames
FromChunk(k) ==
  /\ ~uncaught
  /\ \/ micro = <<>>
     \/ /\ chunk.kind = k.kind /\ chunk.conn = k.conn /\ chunk.sock = k.sock
        /\ chunk.n < MaxChunk

Macro(st) == [st EXCEPT !.chunk = NoChunk]
In(st, k) ==
  [st EXCEPT !.chunk = IF st.micro = <<>> THEN k ELSE [k EXCEPT !.n = st.chunk.n + 1]]

\* --------------------------------------------------------- telephony events
\* telephony sends the start event of a stream before its other events
Started(c) == \E g \in 1..Len(hs) : hs[g].conn = c

\* connections and call identifiers are interchangeable: the first start event
\* of a run is taken to arrive on connection "A" for call "CA1"
TwilioStart(c, m) ==
  /\ tws[c] \in {"OPEN", "CLOSING"}
  /\ FromChunk(TwilioChunk(c))
  /\ Len(hs) < cap.starts
  /\ hs = <<>> => c = "A" /\ m.callSid = "CA1"
  /\ Commit(handleStart(In(State, TwilioChunk(c)), c, m))

TwilioMedia(c, track, payload) ==
  /\ Started(c)
  /\ tws[c] \in {"OPEN", "CLOSING"}
  /\ FromChunk(TwilioChunk(c))
  /\ Commit(handleMedia(In(State, TwilioChunk(c)), c, track, payload))

TwilioStop(c) ==
  /\ Started(c)
  /\ tws[c] \in {"OPEN", "CLOSING"}
  /\ FromChunk(TwilioChunk(c))
  /\ Commit(handleStop(In(State, TwilioChunk(c)), c))

\* ws.on('message') for data that JSON.parse rejects: the handler's catch logs
\* the error
handleMalformed(st, c) == st

TwilioMalformed(c) ==
  /\ tws[c] \in {"OPEN", "CLOSING"}
  /\ FromChunk(TwilioChunk(c))
  /\ Commit(handleMalformed(In(State, TwilioChunk(c)), c))

\* ws.on('error'): the ws package emits 'close' after it
TwilioError(c) ==
  /\ cap.faults
  /\ Started(c)
  /\ tws[c] \in {"OPEN", "CLOSING"}
  /\ MacroOK
  /\ Commit(cleanup([Macro(State) EXCEPT !.tws[c] = "ERRORED", !.tcode[c] = 0], c))

\* ws.on('close')
TwilioClose(c) ==
  /\ Started(c)
  /\ tws[c] \in {"OPEN", "CLOSING", "ERRORED"}
  /\ MacroOK
  /\ Commit(cleanup([Macro(State) EXCEPT !.tws[c] = "CLOSED", !.tcode[c] = 0], c))

\* ------------------------------------------------------- AI endpoint events
RECURSIVE SumOver(_, _, _)
SumOver(F(_), lo, hi) == IF lo > hi THEN 0 ELSE F(lo) + SumOver(F, lo + 1, hi)

MsgTurns(m) == IF m.turnComplete THEN 1 ELSE 0
MsgTexts(m) == Cardinality({i \in 1..Len(m.parts) : m.parts[i].kind = "text"})
MsgEnds(m) ==
  Cardinality({i \in 1..Len(m.toolCalls) : m.toolCalls[i].name = "end_call"})
  + Cardinality({i \in 1..Len(m.parts) :
                   m.parts[i].kind = "text" /\ saysGoodbye(m.parts[i].text)})

\* the model's bounds on what a session accumulates: the endpoint sends m to the
\* waiting loop only while the turn count, the log and the pending timers of
\* its connection stay within the scenario's turns, log and timers
WithinBounds(m) ==
  LET p == gemini.pendingResponses
  IN IF ~gemini.isSetupComplete \/ p = <<>> \/ ~Head(p).live THEN TRUE
     ELSE LET c == hs[Head(p).loop].conn
              s == sessions[session[c]]
              Busy(g) == hs[g].conn = c /\ lp[g].pc \in {"msg", "exec", "sent"}
              turns == s.aiTurnCount + MsgTurns(m)
                       + SumOver(LAMBDA g : IF Busy(g) THEN MsgTurns(lp[g].msg) ELSE 0,
                                 1, Len(lp))
              texts == s.logLen + MsgTexts(m)
                       + SumOver(LAMBDA g : IF Busy(g) THEN MsgTexts(lp[g].msg) ELSE 0,
                                 1, Len(lp))
              ends == Len(pendingEnd[c]) + MsgEnds(m)
                      + (IF m.turnComplete /\ turns >= TURN_LIMIT THEN 1 ELSE 0)
                      + SumOver(LAMBDA g : IF Busy(g)
                                           THEN MsgEnds(lp[g].msg) + MsgTurns(lp[g].msg)
                                           ELSE 0, 1, Len(lp))
          IN /\ turns <= cap.turns
             /\ texts <= cap.log
             /\ (MsgEnds(m) > 0 \/ (m.turnComplete /\ turns >= TURN_LIMIT))
                  => ends <= cap.timers

GeminiOpen(g) ==
  /\ gsock[g].state = "CONNECTING"
  /\ MacroOK
  /\ Commit(onOpen(Macro(State), g))

GeminiMessage(g, m) ==
  /\ gsock[g].state \in {"OPEN", "CLOSING"}
  /\ FromChunk(GeminiChunk(g))
  /\ WithinBounds(m)
  /\ m.malformed => cap.faults
  /\ Commit(onFirstMessage(onMessage(In(State, GeminiChunk(g)), g, m), g, m))

\* ws.on('error'): a failure of the socket, or close() called before it opened
GeminiError(g) ==
  /\ \/ cap.faults /\ gsock[g].state \in {"CONNECTING", "OPEN"}
     \/ gsock[g].state = "ABORTED"
  /\ MacroOK
  /\ Commit(onError(Macro(State), g))

GeminiClose(g) ==
  /\ gsock[g].state \in {"OPEN", "CLOSING", "ERRORED"}
  /\ MacroOK
  /\ Commit(onClose(Macro(State), g))

\* ------------------------------------------------------------------ timers
SilenceFire(c) ==
  /\ silenceTimer[c] = 0
  /\ MacroOK
  /\ Commit(endCall([Macro(State) EXCEPT !.silenceTimer[c] = -1], c, "silence_timeout"))

MaxDurationFire(c) ==
  /\ maxDurationTimer[c] = MAX_CALL_DURATION
  /\ MacroOK
  /\ Commit(endCall([Macro(State) EXCEPT !.maxDurationTimer[c] = -1], c, "max_duration"))

\* a setTimeout callback without a handle comes due: the 2 s and 3 s delays and
\* max-duration timers of earlier start events
PendingFire(c) ==
  /\ pendingEnd[c] # <<>>
  /\ Head(pendingEnd[c]).due = 0
  /\ MacroOK
  /\ Commit(endCall([Macro(State) EXCEPT !.pendingEnd[c] = Tail(@)], c,
                    Head(pendingEnd[c]).reason))

\* a max-duration timer that lost its handle fires
StrayFire(c) ==
  /\ pendingEnd[c] # <<>>
  /\ pendingEnd[c][Len(pendingEnd[c])].due = MAX_CALL_DURATION
  /\ MacroOK
  /\ Commit(endCall([Macro(State) EXCEPT
                       !.pendingEnd[c] = SubSeq(@, 1, Len(@) - 1)], c, "max_duration"))

\* the 100 ms sleep of the consumption loop ends
PollWake(g) ==
  /\ lp[g].pc = "sleep"
  /\ MacroOK
  /\ Commit(loopBack(Macro(State), g))

Deadlines ==
  {silenceTimer[c] : c \in {x \in Conns : silenceTimer[x] >= 0}}
  \cup UNION {{pendingEnd[c][i].due : i \in 1..Len(pendingEnd[c])} : c \in Conns}
  \cup {IdleCap}

Earliest == CHOOSE d \in Deadlines : \A e \in Deadlines : d <= e

\* a count-down after d seconds; a 300 s timer stays pending
Elapse(t, d) == IF t < 0 \/ t = MAX_CALL_DURATION THEN t ELSE t - d

\* time passes until the earliest pending timer is due
Tick ==
  /\ MacroOK
  /\ Earliest > 0
  /\ \/ Deadlines # {IdleCap}
     \/ \E i \in 1..Len(sessions) : sessions[i].isActive /\ sessions[i].quiet < IdleCap
  /\ LET d == Earliest
         st == Macro(State)
     IN Commit([st EXCEPT
          !.silenceTimer = [c \in Conns |-> Elapse(silenceTimer[c], d)],
          !.pendingEnd = [c \in Conns |->
                            [i \in 1..Len(pendingEnd[c]) |->
                               [pendingEnd[c][i] EXCEPT !.due = Elapse(@, d)]]],
          !.sessions = [i \in 1..Len(sessions) |->
                          IF sessions[i].isActive
                          THEN [sessions[i] EXCEPT !.quiet = Min(@ + d, IdleCap)]
                          ELSE sessions[i]]])

\* -------------------------------------------------------------- microtasks
RunMicro ==
  /\ micro # <<>>
  /\ ~uncaught
  /\ LET t == Head(micro)
         st == [Macro(State) EXCEPT !.micro = Tail(@)]
     IN Commit(
          CASE t.kind = "start" ->
                 IF st.hs[t.id].pc = "resolved" THEN startResolved(st, t.id)
                 ELSE startFailed(st, t.id)
            [] t.kind = "end" -> endCallRest(st, t.id)
            [] t.kind = "cleanup" -> cleanupRest(st, t.id)
            [] OTHER ->
                 CASE st.lp[t.id].pc = "msg" -> loopResponse(st, t.id)
                   [] st.lp[t.id].pc = "exec" -> loopExec(st, t.id)
                   [] OTHER -> loopSent(st, t.id))

Tracks == {"inbound", "outbound"}

Next ==
  \/ \E c \in Conns, m \in StartMsgs : TwilioStart(c, m)
  \/ \E c \in Conns, track \in Tracks, payload \in Frames : TwilioMedia(c, track, payload)
  \/ \E c \in Conns : TwilioStop(c)
  \/ \E c \in Conns : TwilioMalformed(c)
  \/ \E c \in Conns : TwilioError(c)
  \/ \E c \in Conns : TwilioClose(c)
  \/ \E g \in 1..Len(gsock) : GeminiOpen(g)
  \/ \E g \in 1..Len(gsock), m \in GeminiMsgs : GeminiMessage(g, m)
  \/ \E g \in 1..Len(gsock) : GeminiError(g)
  \/ \E g \in 1..Len(gsock) : GeminiClose(g)
  \/ \E c \in Conns : SilenceFire(c)
  \/ \E c \in Conns : MaxDurationFire(c)
  \/ \E c \in Conns : PendingFire(c)
  \/ \E c \in Conns : StrayFire(c)
  \/ \E g \in 1..Len(lp) : PollWake(g)
  \/ Tick
  \/ RunMicro

Spec == Init /\ [][Next]_vars

\* ------------------------------------------------------------- properties
Sessions == 1..Len(sessions)

\* the last step ran endCall(reason) in the closure of connection c, whose
\* `session` was s; wasActive: the session's flag before the call
EndCallRan(c, s, reason, wasActive) ==
  \E i \in 1..Len(out) : out[i] = Out("console", c, s, "Ending call", reason, wasActive)

\* this step runs endCall(reason) in the closure of connection c, whose
\* `session` is s, with the session's flag being wasActive before the call
EndCallRuns(c, s, reason, wasActive) ==
  \E i \in 1..Len(out') :
    out'[i] = Out("console", c, s, "Ending call", reason, wasActive)

Reasons == {"completed", "silence_timeout", "max_duration", "ai_requested", "error",
            "disconnected"}

\* the last step ran endCall on a session that was ending or ended already
RepeatedEndCall == \E c \in Conns, s \in Sessions, r \in Reasons : EndCallRan(c, s, r, FALSE)

\* the last step completed endCall in the closure of connection c, whose
\* `session` was s
EndCallCompleted(c, s) ==
  \E i \in 1..Len(out) : out[i] = Out("console", c, s, "ended", "", TRUE)

\* the session the closure of connection c holds is active
Active(c) == session[c] # 0 /\ sessions[session[c]].isActive

\* C1: an endCall on a session that is ending or ended already is a no-op: it
\* leaves the AI link, its sockets, the telephony sockets and the registry as
\* they are
C1_RepeatedEndCallIsNoOp ==
  [][RepeatedEndCall' =>
       /\ gemini' = gemini
       /\ gsock' = gsock
       /\ tws' = tws
       /\ activeSessions' = activeSessions]_vars

\* C3: a session that has had no inbound audio since its start event is no
\* longer active once 16 seconds have passed
C3_SilentStartEnds ==
  \A s \in Sessions :
    (sessions[s].isActive /\ ~sessions[s].heard) => sessions[s].quiet < SILENCE_TIMEOUT + 1

\* this step is the continuation of loop g at stage pc
LoopRuns(g, pc) ==
  /\ micro # <<>>
  /\ Head(micro) = LoopTask(g)
  /\ lp[g].pc = pc
  /\ RunMicro

\* C5: a bare turn-complete signal the loop processes after the turn count has
\* reached 5 arms no termination timer
C5_NoTimerAfterFifthTurn ==
  [][\A g \in 1..Len(lp) :
       ( /\ lp[g].msg = Response(TRUE, <<>>, <<>>)
         /\ sessions[session[hs[g].conn]].aiTurnCount >= TURN_LIMIT
         /\ LoopRuns(g, "msg") )
       => pendingEnd' = pendingEnd]_vars

\* C7: while the session of a connection is not active, neither its silence
\* timer nor its max-duration timer is armed
C7_NoTimerOnDeadSession ==
  \A c \in Conns :
    (session[c] # 0 /\ ~sessions[session[c]].isActive)
      => (silenceTimer[c] = -1 /\ maxDurationTimer[c] = -1)

\* C9: no two session records with the same call id are active at once, and
\* an active session is the one the registry holds for its call id
C9_OneActiveSessionPerCall ==
  /\ \A s, t \in Sessions :
       (s # t /\ sessions[s].isActive /\ sessions[t].isActive)
         => sessions[s].callSid # sessions[t].callSid
  /\ \A s \in Sessions :
       sessions[s].isActive => activeSessions[sessions[s].callSid] = s

\* C10: a session record's flag never returns to true, and once the session of
\* a connection has ended the connection holds no active session again
C10_EndedStaysEnded ==
  [][/\ \A s \in Sessions : ~sessions[s].isActive => ~sessions'[s].isActive
     /\ \A c \in Conns : (session[c] # 0 /\ ~Active(c)) => ~Active(c)']_vars

\* C2: when endCall completes, the session is not active, both timers of its
\* connection are cancelled, the AI link is not ready, the telephony socket
\* has been closed with code 1000 if and only if it was open, and the registry
\* has no entry for the session's call id
C2_EndCallPostconditions ==
  [][\A c \in Conns, s \in Sessions :
       EndCallCompleted(c, s)' =>
         /\ ~sessions'[s].isActive
         /\ silenceTimer'[c] = -1
         /\ maxDurationTimer'[c] = -1
         /\ ~isConnected(State)'
         /\ IF tws[c] = "OPEN"
            THEN tws'[c] = "CLOSING" /\ tcode'[c] = NORMAL_CLOSURE
            ELSE tws'[c] = tws[c] /\ tcode'[c] = tcode[c]
         /\ activeSessions'[sessions[s].callSid] = 0]_vars

\* the session of connection c is active and has had inbound audio
Listening(c) == Active(c) /\ sessions[session[c]].heard

\* C4: no silence timer is pending besides the one the closure holds; while the
\* session of a connection is active and has had inbound audio, that timer is
\* pending and has 15 seconds less the time since the last inbound frame left;
\* and when it fires, endCall runs with reason "silence_timeout"
C4_SilenceTimer ==
  /\ [](\A c \in Conns :
          /\ \A i \in 1..Len(pendingEnd[c]) : pendingEnd[c][i].reason # "silence_timeout"
          /\ Listening(c) =>
               /\ sessions[session[c]].quiet <= SILENCE_TIMEOUT
               /\ silenceTimer[c] = SILENCE_TIMEOUT - sessions[session[c]].quiet)
  /\ [][\A c \in Conns :
          (SilenceFire(c) /\ Listening(c))
            => /\ sessions[session[c]].quiet = SILENCE_TIMEOUT
               /\ EndCallRuns(c, session[c], "silence_timeout", TRUE)
               /\ ~Active(c)']_vars

\* the silence timer of a call that had inbound audio has fired and ended it
C4_SilenceTimeoutFired ==
  /\ cap = Solo
  /\ \E c \in Conns, s \in Sessions : EndCallRan(c, s, "silence_timeout", TRUE)

\* the number of timers e among those pending without a handle
Pending(list, e) == Cardinality({i \in 1..Len(list) : list[i] = e})

TurnLimitTimer == [due |-> TURN_LIMIT_DELAY, reason |-> "completed"]
GoodbyeTimer == [due |-> GOODBYE_DELAY, reason |-> "completed"]
EndCallTimer == [due |-> END_CALL_DELAY, reason |-> "ai_requested"]

\* no endCall ran in the last step
NoEndCall ==
  \A c \in Conns, s \in Sessions, r \in Reasons, b \in BOOLEAN : ~EndCallRuns(c, s, r, b)

\* C6: the turn count reaching 5 and a goodbye phrase arm a 2-second timer and
\* end nothing yet; an end_call result arms a 3-second timer once the tool
\* result has been sent, or ends the call at once with reason "error" when the
\* send threw; those timers run endCall when they are due and not before; the
\* stop event, the silence timer and the max-duration timer run endCall in
\* their own step; and inbound frames are handled while a timer is pending
\* and the process runs
C6_TerminationDelays ==
  /\ [](\A c \in Conns :
          /\ \A i \in 1..Len(pendingEnd[c]) :
               /\ pendingEnd[c][i].reason = "completed" => pendingEnd[c][i].due <= TURN_LIMIT_DELAY
               /\ pendingEnd[c][i].reason = "ai_requested" => pendingEnd[c][i].due <= END_CALL_DELAY
          /\ (pendingEnd[c] # <<>> /\ micro = <<>> /\ tws[c] = "OPEN" /\ ~uncaught)
               => ENABLED TwilioMedia(c, "inbound", <<255>>))
  /\ [][/\ \A g \in 1..Len(lp) :
             LET c == hs[g].conn
                 s == session[c]
                 m == lp[g].msg
             IN /\ ( /\ m.turnComplete
                     /\ LoopRuns(g, "msg")
                     /\ sessions[s].aiTurnCount + 1 >= TURN_LIMIT )
                     => /\ Pending(pendingEnd'[c], TurnLimitTimer)
                             > Pending(pendingEnd[c], TurnLimitTimer)
                        /\ NoEndCall
                        /\ sessions'[s].isActive = sessions[s].isActive
                /\ ( /\ m.toolCalls = <<>>
                     /\ LoopRuns(g, "msg")
                     /\ \E i \in 1..Len(m.parts) :
                          m.parts[i].kind = "text" /\ saysGoodbye(m.parts[i].text) )
                     => /\ Pending(pendingEnd'[c], GoodbyeTimer)
                             > Pending(pendingEnd[c], GoodbyeTimer)
                        /\ NoEndCall
                        /\ sessions'[s].isActive = sessions[s].isActive
                /\ ( /\ LoopRuns(g, "exec")
                     /\ executeTool(m.toolCalls[lp[g].k].name).action = "end_call" )
                     => /\ pendingEnd' = pendingEnd
                        /\ \/ \E i \in 1..Len(out') :
                                /\ out'[i].to = "gemini"
                                /\ out'[i].event = "tool_response"
                                /\ out'[i].tag = m.toolCalls[lp[g].k].id
                           \/ lp'[g].threw
                /\ ( /\ LoopRuns(g, "sent")
                     /\ executeTool(m.toolCalls[lp[g].k].name).action = "end_call" )
                     => IF lp[g].threw
                        THEN EndCallRuns(c, s, "error", sessions[s].isActive)
                        ELSE /\ Pending(pendingEnd'[c], EndCallTimer)
                                  > Pending(pendingEnd[c], EndCallTimer)
                             /\ NoEndCall
                             /\ sessions'[s].isActive = sessions[s].isActive
        /\ \A c \in Conns :
             LET s == session[c]
             IN /\ (PendingFire(c) /\ s # 0)
                   => EndCallRuns(c, s, Head(pendingEnd[c]).reason, sessions[s].isActive)
                /\ (TwilioStop(c) /\ s # 0)
                   => EndCallRuns(c, s, "completed", sessions[s].isActive)
                /\ (SilenceFire(c) /\ s # 0)
                   => EndCallRuns(c, s, "silence_timeout", sessions[s].isActive)
                /\ (MaxDurationFire(c) /\ s # 0)
                   => EndCallRuns(c, s, "max_duration", sessions[s].isActive)
                /\ \A r \in {"completed", "ai_requested"} :
                     (s # 0 /\ EndCallRuns(c, s, r, TRUE) /\ ~TwilioStop(c))
                       => /\ pendingEnd[c] # <<>>
                          /\ Head(pendingEnd[c]) = [due |-> 0, reason |-> r]]_vars

\* the 3-second timer of an end_call result has fired and ended an active session
C6_EndCallTimerFired ==
  \E c \in Conns, s \in Sessions : EndCallRan(c, s, "ai_requested", TRUE)

\* the `clear` events among the entries of a step's output
Clears(o) == {i \in 1..Len(o) : o[i].to = "twilio" /\ o[i].event = "clear"}

\* C8: in every reachable state, handling an inbound frame for the session
\* of a connection sends exactly one `clear` with the session's stream id when
\* the frame's RMS energy is above 5000, first of all it sends and whether the
\* AI link is ready or not; a frame that is not above the threshold sends none
C8_BargeIn ==
  \A c \in Conns, payload \in Frames :
    session[c] # 0 =>
      LET o == handleMedia(State, c, "inbound", payload).out
      IN IF RmsAbove(ulaw2pcm(payload), BARGE_IN_THRESHOLD)
         THEN /\ Cardinality(Clears(o)) = 1
              /\ o[1] = Out("twilio", c, 0, "clear", sessions[session[c]].streamSid,
                            tws[c] = "OPEN")
         ELSE Clears(o) = {}

\* a loud inbound frame has been handled while the AI link was not ready: the
\* `clear` is all that was sent
C8_ClearWhileNotReady ==
  /\ ~isConnected(State)
  /\ \E c \in Conns :
       /\ session[c] # 0
       /\ out = <<Out("twilio", c, 0, "clear", sessions[session[c]].streamSid, TRUE)>>

\* C11: while the sessions of two connections, for two different calls, are
\* both active, an endCall that ends one of them leaves the AI link ready if it
\* was, leaves the link's socket as it is, and leaves the other session's
\* record as it is
C11_SessionIsolation ==
  [][\A c, d \in Conns, r \in Reasons :
       ( /\ c # d
         /\ Active(c)
         /\ Active(d)
         /\ sessions[session[c]].callSid # sessions[session[d]].callSid
         /\ EndCallRuns(c, session[c], r, TRUE) )
       => /\ isConnected(State) => isConnected(State)'
          /\ gemini.ws # 0 => gsock'[gemini.ws].state = gsock[gemini.ws].state
          /\ sessions'[session[d]] = sessions[session[d]]]_vars

\* the entries of pendingResponses whose receive() call is still pending
WaitingEntries ==
  {j \in 1..Len(gemini.pendingResponses) :
     /\ gemini.pendingResponses[j].live
     /\ lp[gemini.pendingResponses[j].loop].pc = "wait"}

\* the oldest of them
OldestWaiting == CHOOSE j \in WaitingEntries : \A k \in WaitingEntries : j <= k

\* the receive() calls that are pending now and settled in state st
Delivered(st) == {i \in 1..Len(lp) : lp[i].pc = "wait" /\ st.lp[i].pc # "wait"}

\* C12: in every reachable state, a message the AI endpoint sends in reply to a
\* setup message (a once listener of the socket is waiting for it) settles no
\* receive() call; any other message, sent while the link has completed its
\* setup and receive() calls are pending, settles the oldest pending call with
\* that message and settles no other call
C12_ReceiveOrder ==
  \A g \in 1..Len(gsock), m \in GeminiMsgs :
    (gsock[g].state \in {"OPEN", "CLOSING"} /\ FromChunk(GeminiChunk(g)) /\ WithinBounds(m))
      => LET st == onMessage(State, g, m)
         IN IF gsock[g].once # <<>>
            THEN Delivered(st) = {}
            ELSE (gemini.isSetupComplete /\ WaitingEntries # {})
                   => LET i == gemini.pendingResponses[OldestWaiting].loop
                      IN /\ Delivered(st) = {i}
                         /\ st.lp[i].msg = m

\* a timer of connection c is pending
TimerPending(c) ==
  silenceTimer[c] >= 0 \/ maxDurationTimer[c] >= 0 \/ pendingEnd[c] # <<>>

\* loop g has a receive() call pending
Waiting(g) == lp[g].pc = "wait"

\* C13: in every reachable state close() leaves the client not ready, without
\* a socket, with an empty queue and with no receive() call pending, and a
\* second close() changes nothing; an endCall step, which calls close(), ends
\* in such a state; and a pending receive() call has its resolver in the queue
\* of a client that holds a socket, so that close() settles it, while a timer
\* of its connection is pending whose callback runs endCall on the
\* connection's session; and when a socket closes, the receive() calls
\* pending on it are settled with null
C13_CloseLeavesNoWaiter ==
  /\ [](LET a == geminiClose(State)
        IN /\ ~isConnected(a)
           /\ a.gemini.ws = 0
           /\ a.gemini.pendingResponses = <<>>
           /\ \A g \in 1..Len(lp) : a.lp[g].pc # "wait"
           /\ geminiClose(a) = a)
  /\ [](\A g \in 1..Len(lp) :
          Waiting(g) =>
            /\ gemini.ws # 0
            /\ \E j \in 1..Len(gemini.pendingResponses) :
                 gemini.pendingResponses[j] = [loop |-> g, live |-> TRUE]
            /\ session[hs[g].conn] # 0
            /\ TimerPending(hs[g].conn))
  /\ [][(\E c \in Conns, s \in Sessions, r \in Reasons, b \in BOOLEAN :
           EndCallRuns(c, s, r, b))
        => /\ gemini'.ws = 0
           /\ ~isConnected(State)'
           /\ gemini'.pendingResponses = <<>>
           /\ \A g \in 1..Len(lp') : lp'[g].pc # "wait"]_vars
  /\ [][\A g \in 1..Len(gsock), i \in 1..Len(lp) :
          (GeminiClose(g) /\ Waiting(i) /\ lp[i].on = g) => lp'[i].pc = "sleep"]_vars

\* an endCall has closed the link and the loop of its session holds the null
\* its receive() call was settled with
C13_WaiterFlushed ==
  \E c \in Conns, s \in Sessions, r \in Reasons, g \in 1..Len(lp) :
    /\ EndCallRan(c, s, r, TRUE)
    /\ hs[g].conn = c
    /\ lp[g].pc = "sleep"
    /\ gemini.ws = 0
    /\ gemini.pendingResponses = <<>>

\* the once('message') listener of connect() number g is registered on a socket
\* that can still deliver a message
Listens(g) ==
  \E w \in 1..Len(gsock) :
    /\ gsock[w].state \in {"OPEN", "CLOSING"}
    /\ \E i \in 1..Len(gsock[w].once) : gsock[w].once[i] = g

\* C14: once the socket of a connect() call has closed, the call has resolved
\* or failed, unless its listener still waits for a first message on another
\* socket; and the link becomes ready only in a step that receives a
\* setup-complete acknowledgement
C14_ConnectCompletes ==
  /\ [](\A g \in 1..Len(gsock) :
          (gsock[g].state = "CLOSED" /\ ~Listens(g)) => hs[g].pc # "await")
  /\ [][(~isConnected(State) /\ isConnected(State)')
          => \E g \in 1..Len(gsock) : GeminiMessage(g, SetupCompleteMsg)]_vars

\* C15: a step that starts connect() on the client finds no earlier connect()
\* call still pending and the client not ready
C15_OneHandshakeInFlight ==
  [][Len(hs') > Len(hs)
       => /\ \A g \in 1..Len(hs) : hs[g].pc # "await"
          /\ ~isConnected(State)]_vars

\* the messages sendAudio, sendMessage and sendToolResponse put on the socket
SendEvents == {"audio", "text", "tool_response"}

\* C16: in every reachable state in which the link is not ready, a call of
\* sendAudio, sendMessage or sendToolResponse throws; and every such call a
\* step made without its throwing has transmitted its message
C16_SendOnlyWhenReady ==
  /\ ~isConnected(State) => SendThrows(State)
  /\ \A i \in 1..Len(out) :
       (out[i].to = "gemini" /\ out[i].event \in SendEvents) => out[i].sent

\* this step is the continuation of handleStart invocation g after connect()
\* failed: the catch block
StartFails(g) ==
  /\ micro # <<>>
  /\ Head(micro) = [kind |-> "start", id |-> g]
  /\ hs[g].pc = "rejected"
  /\ RunMicro

\* the catch block of handleStart creates no session, adds nothing to the
\* registry, arms no timer, starts no loop and closes the telephony socket, if
\* it is open, with code 1011
SetupFailureHandled ==
  \A g \in 1..Len(hs) :
    StartFails(g) =>
      LET c == hs[g].conn
      IN /\ sessions' = sessions
         /\ session' = session
         /\ activeSessions' = activeSessions
         /\ maxDurationTimer' = maxDurationTimer
         /\ pendingEnd' = pendingEnd
         /\ lp' = lp
         /\ IF tws[c] = "OPEN"
            THEN tws'[c] = "CLOSING" /\ tcode'[c] = INTERNAL_ERROR
            ELSE tws'[c] = tws[c]

\* C17: when the handshake of a start event has failed (connect() was
\* rejected, or its socket closed with no listener left to acknowledge it),
\* handleStart creates no session, adds nothing to the registry, arms no
\* timer, starts no loop, and the telephony socket is closed with code 1011:
\* it does not stay open with handleStart suspended
C17_SetupFailure ==
  /\ [][SetupFailureHandled]_vars
  /\ [](\A g \in 1..Len(hs) :
          (hs[g].pc = "await" /\ gsock[g].state = "CLOSED" /\ ~Listens(g))
            => /\ lp[g].pc = "off"
               /\ tws[hs[g].conn] # "OPEN")

\* the session the closure of connection c holds has ended
EndedOn(c) == session[c] # 0 /\ ~sessions[session[c]].isActive

LinkDropped == gemini.ws # 0 /\ gsock[gemini.ws].state = "CLOSED"

\* C19: once the AI endpoint has closed the link while a session is active,
\* the session is still due to end: the closure of its connection refers to
\* it, so that endCall can end it, and a timer of the connection is pending
\* whose callback runs endCall
C19_DroppedLinkEndsSession ==
  \A s \in Sessions :
    (sessions[s].isActive /\ LinkDropped)
      => /\ session[sessions[s].conn] = s
         /\ TimerPending(sessions[s].conn)


\* C20: an error raised while the receive loop handles one response (a tool
\* result whose send threw) stays within that response: no endCall runs, the
\* session stays active and the loop goes on to the next tool call or response;
\* and handling a media frame runs no endCall and leaves the session active
C20_FrameErrorContained ==
  [][/\ \A g \in 1..Len(lp) :
          (LoopRuns(g, "sent") /\ lp[g].threw /\ Active(hs[g].conn))
            => /\ NoEndCall
               /\ sessions'[session[hs[g].conn]].isActive
               /\ lp'[g].pc # "done"
     /\ \A c \in Conns, track \in Tracks, payload \in Frames :
          (TwilioMedia(c, track, payload) /\ Active(c))
            => NoEndCall /\ sessions'[session[c]].isActive]_vars


\* the step leaves the sessions, the timers, the registry, the AI link, the
\* sockets and every pending continuation as they are, and no exception leaves
\* the handler
Skipped ==
  /\ ~uncaught'
  /\ UNCHANGED << tws, tcode, session, silenceTimer, maxDurationTimer, pendingEnd,
                  sessions, activeSessions, hs, gsock, gemini, lp, micro >>
  /\ out' = <<>>

\* C21: a message that JSON.parse rejects, on a telephony stream or on an AI
\* socket, is skipped: it changes no session, timer, registry or link state and
\* no exception leaves the message handler, so the messages after it are handled
\* as if it had not arrived
C21_MalformedSkipped ==
  [][/\ \A c \in Conns : TwilioMalformed(c) => Skipped
     /\ \A g \in 1..Len(gsock) : GeminiMessage(g, Malformed) => Skipped]_vars


\* the tool responses in a step's output
ToolResponses(o) == {i \in 1..Len(o) : o[i].event = "tool_response"}

\* loop g is at tool call number k of its response, a call of an unregistered
\* tool, and the send of its tool response does not throw
UnknownCall(g, k) ==
  /\ lp[g].k = k
  /\ k \in 1..Len(lp[g].msg.toolCalls)
  /\ lp[g].msg.toolCalls[k].name # "end_call"
  /\ Active(hs[g].conn)

\* C22: for a tool call whose name is not registered the registry returns a
\* result with an error and throws nothing; the loop sends exactly one tool
\* response for it, with the call's id and carrying that error, schedules no
\* termination and leaves the session active; the calls of one response are
\* handled one after the other in list order
C22_UnknownTool ==
  [][\A g \in 1..Len(lp) : \A k \in 1..2 :
       /\ (LoopRuns(g, "exec") /\ UnknownCall(g, k) /\ ~SendThrows(State))
            => /\ executeTool(lp[g].msg.toolCalls[k].name).error # "undefined"
               /\ Cardinality(ToolResponses(out')) = 1
               /\ \A i \in ToolResponses(out') :
                    /\ out'[i].tag = lp[g].msg.toolCalls[k].id
                    /\ \E p \in out'[i].body : p[1] = "error"
               /\ lp'[g].pc = "sent" /\ lp'[g].k = k
               /\ pendingEnd' = pendingEnd
               /\ NoEndCall
               /\ Active(hs[g].conn)'
       /\ (LoopRuns(g, "sent") /\ UnknownCall(g, k) /\ ~lp[g].threw)
            => /\ ToolResponses(out') = {}
               /\ pendingEnd' = pendingEnd
               /\ NoEndCall
               /\ Active(hs[g].conn)'
               /\ k < Len(lp[g].msg.toolCalls) => lp'[g].pc = "exec" /\ lp'[g].k = k + 1]_vars


\* ------------------------------------------------------------ codec helpers
handlerVars == << tws, tcode, session, silenceTimer, maxDurationTimer, pendingEnd,
                  sessions, activeSessions, hs, gsock, gemini, lp, micro, chunk, out,
                  uncaught, cap >>

\* samples at the ends of the 16-bit range, at the clipping level and on both
\* sides of segment boundaries of the encoder
EdgeSamples ==
  { -32768, -32767, -32636, -32635, -16252, -16251, -3964, -125, -124, -4, -1, 0, 1, 3, 4,
    123, 124, 379, 380, 3963, 3964, 16251, 16252, 32635, 32636, 32767 }

\* PCM frames handed to pcm2ulaw: every pair of neighbouring 16-bit samples, and
\* every pair of edge samples in either order
PcmFrames ==
  { <<x, x + 1>> : x \in Int16 \ {32767} } \cup { <<x, y>> : x \in EdgeSamples, y \in EdgeSamples }

Buffer(stage, data) ==
  [stage |-> stage, input |-> data, data |-> data, fromRate |-> 0, toRate |-> 0]

MuLawInit ==
  /\ Constructed
  /\ cap = Solo
  /\ codec \in { Buffer("pcm", f) : f \in PcmFrames }

\* pcm2ulaw(data)
Encode ==
  /\ codec.stage = "pcm"
  /\ codec' = [codec EXCEPT !.stage = "ulaw", !.data = pcm2ulaw(codec.data)]
  /\ UNCHANGED handlerVars

\* ulaw2pcm(data)
Decode ==
  /\ codec.stage = "ulaw"
  /\ codec' = [codec EXCEPT !.stage = "decoded", !.data = ulaw2pcm(codec.data)]
  /\ UNCHANGED handlerVars

MuLawNext == Encode \/ Decode

MuLawSpec == MuLawInit /\ [][MuLawNext]_vars

Abs(x) == IF x < 0 THEN -x ELSE x

\* the quantization step of the mu-law segment the sample x falls in: 8 in the
\* lowest segment, doubling with each segment up to 1024 in the top one
QuantStep(x) == Pow2(FloorLog2(Min(Abs(x), CLIP) + BIAS) - 4)

\* C23: decoding the mu-law encoding of a 16-bit sample x gives a sample of the
\* same sign as x or 0, at most the quantization step of x's segment (never more
\* than 1024) away from x, and the round trip is monotonic: of two samples the
\* smaller one does not come back as the larger one
C23_MuLawRoundTrip ==
  codec.stage = "decoded" =>
    /\ \A i \in 1..Len(codec.input) :
         LET x == codec.input[i]
             y == codec.data[i]
         IN /\ x > 0 => y >= 0
            /\ x < 0 => y <= 0
            /\ x = 0 => y = 0
            /\ Abs(x - y) <= QuantStep(x)
            /\ QuantStep(x) <= 1024
            /\ y \in Int16
    /\ \A i, j \in 1..Len(codec.input) :
         codec.input[i] <= codec.input[j] => codec.data[i] <= codec.data[j]

\* a clipped sample and its neighbour have made the round trip
C23_ClippedDecoded ==
  /\ codec.stage = "decoded"
  /\ codec.input = <<32766, 32767>>
  /\ codec.data = <<32124, 32124>>


\* longest frame handed to resample
MaxFrame == 3

ResampleSamples == { -32768, -5, -1, 0, 1, 4, 32767 }

RECURSIVE FramesUpTo(_)
FramesUpTo(n) ==
  IF n = 0 THEN { <<>> }
  ELSE LET shorter == FramesUpTo(n - 1)
       IN shorter \cup { Append(f, x) : f \in { g \in shorter : Len(g) = n - 1 },
                                        x \in ResampleSamples }

\* the rate pairs of the calls: the two conversions of the handler and the
\* identity
RatePairs ==
  { <<8000, 24000>>, <<24000, 8000>>, <<8000, 8000>>, <<16000, 16000>>, <<24000, 24000>> }

ResampleInit ==
  /\ Constructed
  /\ cap = Solo
  /\ codec \in { Buffer("pcm", f) : f \in FramesUpTo(MaxFrame) }

\* resample(data, fromRate, toRate)
Resample(fromRate, toRate) ==
  /\ codec.stage = "pcm"
  /\ codec' = [codec EXCEPT !.stage = "resampled",
                            !.data = resample(codec.data, fromRate, toRate),
                            !.fromRate = fromRate, !.toRate = toRate]
  /\ UNCHANGED handlerVars

ResampleNext == \E p \in RatePairs : Resample(p[1], p[2])

ResampleSpec == ResampleInit /\ [][ResampleNext]_vars

\* C24: resampling a frame s of n samples from 8000 to 24000 gives 3n samples:
\* for each sample but the last, the sample itself, then floor((2*s1+s2)/3) and
\* floor((s1+2*s2)/3) with s2 the next sample; the last sample three times; a
\* constant frame comes out constant; resampling to the same rate returns the
\* frame unchanged
C24_Resample ==
  codec.stage = "resampled" =>
    LET s == codec.input
        o == codec.data
        n == Len(s)
    IN /\ codec.fromRate = codec.toRate => o = s
       /\ (codec.fromRate = 8000 /\ codec.toRate = 24000) =>
            /\ Len(o) = 3 * n
            /\ \A i \in 0..(n - 2) :
                 /\ o[3 * i + 1] = s[i + 1]
                 /\ 3 * o[3 * i + 2] <= 2 * s[i + 1] + s[i + 2]
                 /\ 3 * o[3 * i + 2] + 3 > 2 * s[i + 1] + s[i + 2]
                 /\ 3 * o[3 * i + 3] <= s[i + 1] + 2 * s[i + 2]
                 /\ 3 * o[3 * i + 3] + 3 > s[i + 1] + 2 * s[i + 2]
            /\ n > 0 => /\ o[3 * n - 2] = s[n]
                        /\ o[3 * n - 1] = s[n]
                        /\ o[3 * n] = s[n]
            /\ \A c \in ResampleSamples :
                 (\A i \in 1..n : s[i] = c) => \A k \in 1..Len(o) : o[k] = c

\* a frame with a negative sample has been resampled from 8000 to 24000
C24_NegativeInterpolated ==
  /\ codec.stage = "resampled"
  /\ codec.fromRate = 8000 /\ codec.toRate = 24000
  /\ codec.input = <<-1, 0>>
  /\ codec.data = <<-1, -1, -1, 0, 0, 0>>


\* what a step sent towards the AI link
ToGemini(o) == {i \in 1..Len(o) : o[i].to = "gemini"}

\* a media event can arrive on connection c now
MediaArrives(c) ==
  /\ Started(c)
  /\ tws[c] \in {"OPEN", "CLOSING"}
  /\ FromChunk(TwilioChunk(c))

\* C25: a media event is ignored entirely when its connection has no session
\* or its track is not inbound; an inbound frame that arrives while the AI link
\* is not ready re-arms the silence timer and sends nothing to the AI link, and
\* no error leaves the handler; a frame that arrives while the link is ready is
\* forwarded, resampled, within the handling of that very frame, so forwarded
\* frames reach the AI link in their order of arrival
C25_InboundFrames ==
  \A c \in Conns, track \in Tracks, payload \in Frames :
    MediaArrives(c) =>
      LET before == In(State, TwilioChunk(c))
          a == handleMedia(before, c, track, payload)
      IN /\ (session[c] = 0 \/ track # "inbound") => a = before
         /\ (session[c] # 0 /\ track = "inbound") =>
              /\ a.silenceTimer[c] = SILENCE_TIMEOUT
              /\ ~a.uncaught
              /\ \A i \in 1..Len(a.out) : a.out[i].to # "console"
              /\ a.gemini = gemini /\ a.gsock = gsock /\ a.hs = hs /\ a.lp = lp
              /\ a.micro = micro
              /\ IF isConnected(State)
                 THEN /\ Cardinality(ToGemini(a.out)) = 1
                      /\ \A i \in ToGemini(a.out) :
                           /\ a.out[i].event = "audio"
                           /\ a.out[i].sock = gemini.ws
                           /\ a.out[i].sent
                           /\ a.out[i].body =
                                {<<"data", resample8to24(ulaw2pcm(payload))>>}
                 ELSE ToGemini(a.out) = {}

\* a frame of two samples has just been forwarded to the ready AI link
C25_FrameForwarded ==
  \E i \in 1..Len(out) :
    /\ out[i].event = "audio"
    /\ out[i].sent
    /\ out[i].body = {<<"data", resample8to24(ulaw2pcm(<<171, 172>>))>>}


\* a message of the AI endpoint can arrive on socket g now
MessageArrives(g, m) ==
  /\ gsock[g].state \in {"OPEN", "CLOSING"}
  /\ FromChunk(GeminiChunk(g))
  /\ WithinBounds(m)

\* the loop of handleStart invocation g is running for an active session over
\* socket g, whose handshake is over
Consuming(g) ==
  /\ lp[g].pc \notin {"off", "done"}
  /\ Active(hs[g].conn)
  /\ gemini.ws = g
  /\ gemini.isSetupComplete
  /\ gsock[g].once = <<>>

\* C26: no message of the AI endpoint is lost: a message that arrives after the
\* handshake, while the session is active and its loop runs, is handed to a
\* receive() call of the loop, also when the loop is not waiting in receive()
\* at that moment; the client keeps no message, so a message that settles no
\* receive() call on arrival is never returned by one
C26_NoMessageLost ==
  \A g \in 1..Len(gsock) : \A m \in GeminiMsgs \ {SetupCompleteMsg, Malformed} :
    (MessageArrives(g, m) /\ Consuming(g))
      => Delivered(onMessage(In(State, GeminiChunk(g)), g, m)) # {}


\* C27: the queue of pending consumers holds only receive() calls that are
\* still pending: a receive() settled with null by the socket's close event has
\* left the queue, so no later message is consumed by a settled consumer
C27_QueueHoldsPending ==
  \A j \in 1..Len(gemini.pendingResponses) : j \in WaitingEntries


\* C28: nothing flows after termination: once the session of a connection is no
\* longer active, no media or clear event is delivered to its telephony socket,
\* a media event forwards no audio to the AI link, and the conversation log and
\* the turn count of an ended session stay as they are
C28_NothingAfterEnd ==
  /\ [](\A c \in Conns, track \in Tracks, payload \in Frames :
          (MediaArrives(c) /\ EndedOn(c))
            => ToGemini(handleMedia(In(State, TwilioChunk(c)), c, track, payload).out) = {})
  /\ [][/\ \A s \in Sessions :
             ~sessions[s].isActive
               => /\ sessions'[s].logLen = sessions[s].logLen
                  /\ sessions'[s].aiTurnCount = sessions[s].aiTurnCount
        /\ \A c \in Conns :
             EndedOn(c)
               => \A i \in 1..Len(out') :
                    ~(/\ out'[i].to = "twilio"
                      /\ out'[i].conn = c
                      /\ out'[i].event \in {"media", "clear"}
                      /\ out'[i].sent)]_vars


\* C29: a telephony socket that closed while the AI handshake of its start
\* event was in flight gets no session afterwards: in every reachable state the
\* telephony socket of an active session has not already been closed
C29_NoSessionOnClosedSocket ==
  \A s \in Sessions : sessions[s].isActive => tws[sessions[s].conn] # "CLOSED"

====
